---------------------------- MODULE Spec2Model ----------------------------
(***************************************************************************)
(* A model of backend/main.py: the POST /api/chat endpoint that validates  *)
(* a RequestObject, opens the agent's stream lazily from the generator     *)
(* generate(), and relays token.content chunk by chunk; and the seven      *)
(* @tool data-lookup functions.  The agent, its checkpointer and the       *)
(* market-data provider are external: what they yield, when they end or    *)
(* raise, is a nondeterministic choice; what the code passes to them and   *)
(* does with what they give back is modelled from the source.              *)
(***************************************************************************)
EXTENDS Naturals, Sequences, FiniteSets

\* ------------------------------------------------------------------ bounds
\* Number of request slots (concurrent or sequential POSTs).
NumReqs == 2
\* Tokens the agent may yield, over all streams together.
MaxTokens == 2
\* Tool invocations in one behaviour of the tool specification.
MaxToolCalls == 2

Reqs == 1..NumReqs

\* ------------------------------------------------------------ JSON values
\* A JSON field of the POST body: a string, a value of another type, or absent.
Str(s) == [t |-> "str", v |-> s]
NonStr == [t |-> "num", v |-> "7"]
Missing == [t |-> "missing", v |-> ""]
NoBody == [content |-> Missing, id |-> Missing, role |-> Missing,
           threadId |-> Missing, responseId |-> Missing]

Body(c, i, ro, th, re) ==
    [content |-> c, id |-> i, role |-> ro, threadId |-> th, responseId |-> re]

\* Bodies that match the Request shape: two conversations, differing in every
\* field.
ValidBodies ==
    { Body(Str("q1"), Str("1"), Str("user"), Str("t1"), Str("r1")),
      Body(Str("q2"), Str("2"), Str("assistant"), Str("t2"), Str("r2")) }

\* Bodies that do not: one field absent or of a non-string type.
InvalidBodies ==
    LET ok == Body(Str("q1"), Str("1"), Str("user"), Str("t1"), Str("r1"))
    IN  { [ok EXCEPT !.content = NonStr], [ok EXCEPT !.content = Missing],
          [ok EXCEPT !.role = NonStr], [ok EXCEPT !.threadId = Missing],
          [ok EXCEPT !.responseId = Missing] }

Bodies == ValidBodies \cup InvalidBodies

\* ---------------------------------------------------- request validation
\* class PromptObject(BaseModel): content: str, id: str, role: str
PromptObject(b) ==
    /\ b.content.t = "str"
    /\ b.id.t = "str"
    /\ b.role.t = "str"

\* Mutant: threadId is not declared on the model, so it is not validated.
RequestObject_noThreadId(b) ==
    /\ PromptObject(b)
    /\ b.responseId.t = "str"

\* class RequestObject(BaseModel): prompt: PromptObject, threadId: str, responseId: str
RequestObject(b) ==
    /\ PromptObject(b)
    /\ b.threadId.t = "str"
    /\ b.responseId.t = "str"


\* ------------------------------------------------------------ the agent call
\* The fixed system instruction of generate().
SYSTEM_PROMPT ==
    "You are a stock analysis assistant. You have the ability to get real-time stock prices, historical stock prices (given a date range), news,balance sheet data ,company information,dividend history, and financial statements for publicly traded companies using the provided tools. Use these tools to provide accurate and up-to-date information about stocks when responding to user queries."

SystemMessage(s) == [type |-> "system", content |-> s]
HumanMessage(s) == [type |-> "human", content |-> s]
AIMessage(s) == [type |-> "ai", content |-> s]

\* Contents a streamed token may carry (the empty fragment included).
Contents == {"", "ab"}
\* agent.stream(..., stream_mode='messages') yields (token, metadata) pairs.
StreamItems == { <<[content |-> c], "metadata">> : c \in Contents }

\* Thread identifiers the checkpointer may be keyed by (an InMemorySaver takes
\* any string): those of the bodies, the empty string and a literal.
Keys == {"", "1", "t1", "t2"}

VARIABLES
    body,       \* the POST body of each request
    phase,      \* Idle, Validating, Streaming, Closed
    status,     \* HTTP status of the response, 0 while unset
    headers,    \* response headers, NoHeaders while unset
    config,     \* config['configurable']['thread_id'] built by chat()
    gen,        \* the generator generate(): none, created, running, have_token, returned, raised
    calls,      \* the calls of agent.stream made for each request
    upstream,   \* the agent's stream: none, open, ended, error
    yielded,    \* the (token, metadata) pairs the agent's stream has yielded
    sent,       \* the chunks written to the response body
    ctx,        \* the conversation context the agent loaded when its stream opened
    store,      \* the checkpointer: thread_id -> recorded messages
    recorded,   \* per thread named in a body: the messages recorded for it, in order
    seen,       \* Len(recorded[thread]) when the request's stream opened
    overlapped  \* requests whose thread had two streams open at once up to their opening

reqVars == <<body, phase, status, headers, config, gen, calls, upstream,
             yielded, sent, ctx, store, recorded, seen, overlapped>>

\* The state of the data-lookup tools.
VARIABLES
    tpc,        \* the running tool invocation: idle, or printed (line written, lookup not yet made)
    tcur,       \* its function and arguments
    stdout,     \* the diagnostic lines written, in order
    queries,    \* the queries made to the market-data provider, in order
    done        \* the completed invocations: function, arguments, what the provider gave, result

toolVars == <<tpc, tcur, stdout, queries, done>>

NoHeaders == [content_type |-> "", cache_control |-> "", connection |-> ""]

\* Mutant: the response is built without media_type and headers.
StreamHeaders_default ==
    [content_type |-> "application/json", cache_control |-> "", connection |-> ""]

\* StreamingResponse(..., media_type='text/event-stream', headers={...})
StreamHeaders ==
    [content_type |-> "text/event-stream",
     cache_control |-> "no-cache, no-transform",
     connection |-> "keep-alive"]

\* Status of a StreamingResponse built without status_code.
STATUS_OK == 200
\* Status of FastAPI's answer to a body that fails RequestObject.
STATUS_UNPROCESSABLE == 422

\* The thread a request names in its body.
ThreadOf(r) == body[r].threadId.v

TotalYielded ==
    LET RECURSIVE Sum(_)
        Sum(n) == IF n = 0 THEN 0 ELSE Len(yielded[n]) + Sum(n - 1)
    IN  Sum(NumReqs)

\* Mutant: the thread identifier is a literal, the same for every request.
ThreadConfig_literal(b) == "1"

\* config = {'configurable': {'thread_id': request.threadId}}
ThreadConfig(b) == b.threadId.v

\* Mutant: the user's message is typed by prompt.role.
StreamArgs_role(r) ==
    [messages |-> <<SystemMessage(SYSTEM_PROMPT),
                    [type |-> body[r].role.v, content |-> body[r].content.v]>>,
     stream_mode |-> "messages",
     thread_id |-> config[r]]

\* The arguments of agent.stream(...) in generate().
StreamArgs(r) ==
    [messages |-> <<SystemMessage(SYSTEM_PROMPT), HumanMessage(body[r].content.v)>>,
     stream_mode |-> "messages",
     thread_id |-> config[r]]

\* Mutant: each token is framed as a server-sent event.
Chunk_sse(item) == "data: " \o item[1].content \o "\n\n"

\* yield token.content
Chunk(item) == item[1].content

\* Mutant: an except clause writes a final error event.
ErrorChunks_event(r) == <<"[error]">>

\* generate() has no try/except around the stream: on an error nothing is written.
ErrorChunks(r) == <<>>

Tag(r, msgs) == [i \in 1..Len(msgs) |-> [msg |-> msgs[i], by |-> r]]

RECURSIVE Concat(_)
Concat(seq) == IF seq = <<>> THEN "" ELSE Head(seq) \o Concat(Tail(seq))

\* The text of the answer the agent records: its tokens' contents, joined.
TokenText(items) == Concat([i \in 1..Len(items) |-> items[i][1].content])

\* The agent opens a run on thread_id: it loads the thread's checkpoint and
\* records the input messages under it.
AgentOpen(r, args) ==
    LET key == args.thread_id
        input == Tag(r, args.messages)
    IN  /\ upstream' = [upstream EXCEPT ![r] = "open"]
        /\ ctx' = [ctx EXCEPT ![r] = store[key]]
        /\ store' = [store EXCEPT ![key] = store[key] \o input]
        /\ recorded' = [recorded EXCEPT ![ThreadOf(r)] = @ \o input]
        /\ seen' = [seen EXCEPT ![r] = Len(recorded[ThreadOf(r)])]
        /\ overlapped' =
             IF \E q \in Reqs \ {r} :
                    /\ phase[q] \in {"Streaming", "Closed"}
                    /\ ThreadOf(q) = ThreadOf(r)
                    /\ upstream[q] = "open" \/ q \in overlapped
             THEN overlapped \cup {r}
             ELSE overlapped

\* ------------------------------------------------------------- the endpoint
\* A POST /api/chat arrives and FastAPI starts reading its body.  Request slots
\* are filled in order (they are interchangeable).
Receive(r) ==
    /\ phase[r] = "Idle"
    /\ IF r = 1 THEN TRUE ELSE phase[r - 1] # "Idle"
    /\ phase' = [phase EXCEPT ![r] = "Validating"]
    /\ UNCHANGED <<body, status, headers, config, gen, calls, upstream, yielded,
                   sent, ctx, store, recorded, seen, overlapped>>
    /\ UNCHANGED toolVars

\* The body b fails RequestObject: FastAPI answers with its validation error and
\* chat() is never entered.
Reject(r, b) ==
    /\ phase[r] = "Validating"
    /\ ~RequestObject(b)
    /\ body' = [body EXCEPT ![r] = b]
    /\ status' = [status EXCEPT ![r] = STATUS_UNPROCESSABLE]
    /\ phase' = [phase EXCEPT ![r] = "Closed"]
    /\ UNCHANGED <<headers, config, gen, calls, upstream, yielded, sent,
                   ctx, store, recorded, seen, overlapped>>
    /\ UNCHANGED toolVars

\* Mutant: chat() consumes the agent's stream before it returns, so a failing
\* stream makes the request fail with a server error.
chat_eager(r, b) ==
    /\ phase[r] = "Validating"
    /\ RequestObject(b)
    /\ body' = [body EXCEPT ![r] = b]
    /\ config' = [config EXCEPT ![r] = ThreadConfig(b)]
    /\ LET args == [messages |-> <<SystemMessage(SYSTEM_PROMPT), HumanMessage(b.content.v)>>,
                    stream_mode |-> "messages",
                    thread_id |-> ThreadConfig(b)]
       IN  /\ calls' = [calls EXCEPT ![r] = Append(calls[r], args)]
           /\ ctx' = [ctx EXCEPT ![r] = store[args.thread_id]]
           /\ store' = [store EXCEPT ![args.thread_id] = @ \o Tag(r, args.messages)]
           /\ recorded' = [recorded EXCEPT ![b.threadId.v] = @ \o Tag(r, args.messages)]
    /\ upstream' = [upstream EXCEPT ![r] = "error"]
    /\ gen' = [gen EXCEPT ![r] = "raised"]
    /\ status' = [status EXCEPT ![r] = 500]
    /\ phase' = [phase EXCEPT ![r] = "Closed"]
    /\ UNCHANGED <<headers, yielded, sent, seen, overlapped>>
    /\ UNCHANGED toolVars

\* async def chat(request): the body b parsed into RequestObject; chat builds
\* config, creates the generator object (its body does not run yet) and returns
\* the StreamingResponse, whose status and headers go out before the body is
\* iterated.
chat(r, b) ==
    /\ phase[r] = "Validating"
    /\ RequestObject(b)
    /\ body' = [body EXCEPT ![r] = b]
    /\ config' = [config EXCEPT ![r] = ThreadConfig(b)]
    /\ gen' = [gen EXCEPT ![r] = "created"]
    /\ status' = [status EXCEPT ![r] = STATUS_OK]
    /\ headers' = [headers EXCEPT ![r] = StreamHeaders]
    /\ phase' = [phase EXCEPT ![r] = "Streaming"]
    /\ UNCHANGED <<calls, upstream, yielded, sent, ctx, store, recorded,
                   seen, overlapped>>
    /\ UNCHANGED toolVars

\* Mutant: a per-thread lock makes a request wait for the thread's open stream.
generate_start_locked(r) ==
    /\ phase[r] = "Streaming"
    /\ gen[r] = "created"
    /\ \A q \in Reqs \ {r} : ~(upstream[q] = "open" /\ config[q] = config[r])
    /\ calls' = [calls EXCEPT ![r] = Append(calls[r], StreamArgs(r))]
    /\ AgentOpen(r, StreamArgs(r))
    /\ gen' = [gen EXCEPT ![r] = "running"]
    /\ UNCHANGED <<body, phase, status, headers, config, yielded, sent>>
    /\ UNCHANGED toolVars

\* The first pull of the response body runs generate() up to agent.stream(...).
generate_start(r) ==
    /\ phase[r] = "Streaming"
    /\ gen[r] = "created"
    /\ calls' = [calls EXCEPT ![r] = Append(calls[r], StreamArgs(r))]
    /\ AgentOpen(r, StreamArgs(r))
    /\ gen' = [gen EXCEPT ![r] = "running"]
    /\ UNCHANGED <<body, phase, status, headers, config, yielded, sent>>
    /\ UNCHANGED toolVars

\* The agent's stream yields its next (token, metadata) pair.
AgentYield(r, item) ==
    /\ gen[r] = "running"
    /\ upstream[r] = "open"
    /\ TotalYielded < MaxTokens
    /\ yielded' = [yielded EXCEPT ![r] = Append(yielded[r], item)]
    /\ gen' = [gen EXCEPT ![r] = "have_token"]
    /\ UNCHANGED <<body, phase, status, headers, config, calls, upstream, sent,
                   ctx, store, recorded, seen, overlapped>>
    /\ UNCHANGED toolVars

\* Mutant: the loop breaks after its first chunk, closing the response while the
\* agent's stream is open.
generate_yield_break(r) ==
    /\ gen[r] = "have_token"
    /\ sent' = [sent EXCEPT ![r] = Append(sent[r], Chunk(yielded[r][Len(yielded[r])]))]
    /\ gen' = [gen EXCEPT ![r] = "returned"]
    /\ phase' = [phase EXCEPT ![r] = "Closed"]
    /\ UNCHANGED <<body, status, headers, config, calls, upstream, yielded,
                   ctx, store, recorded, seen, overlapped>>
    /\ UNCHANGED toolVars

\* for token, _ in agent.stream(...): yield token.content -- the chunk is
\* written to the response body.
generate_yield(r) ==
    /\ gen[r] = "have_token"
    /\ sent' = [sent EXCEPT ![r] = Append(sent[r], Chunk(yielded[r][Len(yielded[r])]))]
    /\ gen' = [gen EXCEPT ![r] = "running"]
    /\ UNCHANGED <<body, phase, status, headers, config, calls, upstream, yielded,
                   ctx, store, recorded, seen, overlapped>>
    /\ UNCHANGED toolVars

\* The agent's run completes: it records its answer in a checkpoint holding the
\* run's own state (what it loaded, its input, its answer).
AgentEnd(r) ==
    LET key == calls[r][Len(calls[r])].thread_id
        input == Tag(r, calls[r][Len(calls[r])].messages)
        answer == Tag(r, <<AIMessage(TokenText(yielded[r]))>>)
    IN  /\ store' = [store EXCEPT ![key] = ctx[r] \o input \o answer]
        /\ recorded' = [recorded EXCEPT ![ThreadOf(r)] = @ \o answer]
        /\ upstream' = [upstream EXCEPT ![r] = "ended"]

\* The agent's stream raises (a tool or the model provider failed): the run
\* records no answer.
AgentRaise(r) ==
    /\ upstream' = [upstream EXCEPT ![r] = "error"]
    /\ UNCHANGED <<store, recorded>>

\* The stream is exhausted: the for loop ends, generate() returns and the
\* response closes.
generate_return(r) ==
    /\ gen[r] = "running"
    /\ upstream[r] = "open"
    /\ AgentEnd(r)
    /\ gen' = [gen EXCEPT ![r] = "returned"]
    /\ phase' = [phase EXCEPT ![r] = "Closed"]
    /\ UNCHANGED <<body, status, headers, config, calls, yielded, sent,
                   ctx, seen, overlapped>>
    /\ UNCHANGED toolVars

\* The stream raises while generate() waits for the next token: nothing catches
\* it, generate() ends with the error and the response ends there.
generate_raise(r) ==
    /\ gen[r] = "running"
    /\ upstream[r] = "open"
    /\ AgentRaise(r)
    /\ sent' = [sent EXCEPT ![r] = sent[r] \o ErrorChunks(r)]
    /\ gen' = [gen EXCEPT ![r] = "raised"]
    /\ phase' = [phase EXCEPT ![r] = "Closed"]
    /\ UNCHANGED <<body, status, headers, config, calls, yielded,
                   ctx, seen, overlapped>>
    /\ UNCHANGED toolVars

InitReqs ==
    /\ body = [r \in Reqs |-> NoBody]
    /\ phase = [r \in Reqs |-> "Idle"]
    /\ status = [r \in Reqs |-> 0]
    /\ headers = [r \in Reqs |-> NoHeaders]
    /\ config = [r \in Reqs |-> ""]
    /\ gen = [r \in Reqs |-> "none"]
    /\ calls = [r \in Reqs |-> <<>>]
    /\ upstream = [r \in Reqs |-> "none"]
    /\ yielded = [r \in Reqs |-> <<>>]
    /\ sent = [r \in Reqs |-> <<>>]
    /\ ctx = [r \in Reqs |-> <<>>]
    /\ store = [k \in Keys |-> <<>>]
    /\ recorded = [k \in Keys |-> <<>>]
    /\ seen = [r \in Reqs |-> 0]
    /\ overlapped = {}

\* ------------------------------------------------- the data-lookup tools
ToolNames ==
    {"get_stock_price", "get_historical_stock_price", "get_balance_sheet",
     "get_stock_news", "get_company_info", "get_dividends", "get_financials"}

Tickers == {"AAPL", "NOPE"}

NoCall == [fn |-> "", ticker |-> "", start_date |-> "", end_date |-> ""]

\* The arguments each tool is called with: a ticker, and for the historical
\* lookup a date range.
ToolCalls ==
    { [fn |-> f, ticker |-> t,
       start_date |-> IF f = "get_historical_stock_price" THEN "2024-01-01" ELSE "",
       end_date |-> IF f = "get_historical_stock_price" THEN "2024-02-01" ELSE ""] :
      f \in ToolNames, t \in Tickers }

\* What the provider may answer to one query: rows of data (possibly none), or
\* an error.
ProviderOutcomes ==
    { [ok |-> TRUE, err |-> "", rows |-> rws] : rws \in {<<>>, <<"101">>, <<"101", "102">>} }
    \cup { [ok |-> FALSE, err |-> e, rows |-> <<>>] : e \in {"invalid ticker", "network"} }

\* print('<name> tool is being used')
DiagLine(f) == f \o " tool is being used"

\* The attribute or method of yf.Ticker(ticker) each tool reads.
Endpoint(f) ==
    CASE f = "get_stock_price" -> "history"
      [] f = "get_historical_stock_price" -> "history"
      [] f = "get_balance_sheet" -> "balance_sheet"
      [] f = "get_stock_news" -> "news"
      [] f = "get_company_info" -> "info"
      [] f = "get_dividends" -> "dividends"
      [] f = "get_financials" -> "financials"

\* stock = yf.Ticker(ticker); stock.<endpoint>(...): the one query of a call.
Query(c) ==
    [endpoint |-> Endpoint(c.fn), ticker |-> c.ticker,
     start |-> c.start_date, end |-> c.end_date]

Raised(e) == [raised |-> TRUE, err |-> e, kind |-> "", value |-> <<>>]
Returned(k, val) == [raised |-> FALSE, err |-> "", kind |-> k, value |-> val]

\* Mutant: the lookup is wrapped in try/except and an empty payload returned.
ToolResult_swallow(f, o) ==
    IF ~o.ok THEN Returned("dict", <<>>)
    ELSE CASE f = "get_stock_price" ->
                IF o.rows = <<>> THEN Raised("IndexError")
                ELSE Returned("value", <<o.rows[Len(o.rows)]>>)
           [] f \in {"get_historical_stock_price", "get_dividends", "get_financials"} ->
                Returned("dict", o.rows)
           [] OTHER -> Returned("object", o.rows)

\* What each tool returns from what the provider gave.  Nothing is caught: a
\* provider error is the call's error.  get_stock_price takes the last Close,
\* which raises IndexError on no rows; three tools convert with .to_dict(), the
\* others return the provider's object as it is.
ToolResult(f, o) ==
    IF ~o.ok THEN Raised(o.err)
    ELSE CASE f = "get_stock_price" ->
                IF o.rows = <<>> THEN Raised("IndexError")
                ELSE Returned("value", <<o.rows[Len(o.rows)]>>)
           [] f \in {"get_historical_stock_price", "get_dividends", "get_financials"} ->
                Returned("dict", o.rows)
           [] OTHER -> Returned("object", o.rows)

\* The first statement of every tool: the diagnostic line.
tool_print(c) ==
    /\ tpc = "idle"
    /\ Len(done) < MaxToolCalls
    /\ stdout' = Append(stdout, DiagLine(c.fn))
    /\ tcur' = c
    /\ tpc' = "printed"
    /\ UNCHANGED <<queries, done>>
    /\ UNCHANGED reqVars

\* The rest of the tool: the lookup and the return (or the error).
tool_lookup(o) ==
    /\ tpc = "printed"
    /\ queries' = Append(queries, Query(tcur))
    /\ done' = Append(done, [call |-> tcur, outcome |-> o, result |-> ToolResult(tcur.fn, o)])
    /\ tcur' = NoCall
    /\ tpc' = "idle"
    /\ UNCHANGED stdout
    /\ UNCHANGED reqVars

InitTools ==
    /\ tpc = "idle"
    /\ tcur = NoCall
    /\ stdout = <<>>
    /\ queries = <<>>
    /\ done = <<>>

vars == <<reqVars, toolVars>>
Init == InitReqs /\ InitTools

Next ==
    \/ \E r \in Reqs : Receive(r)
    \/ \E r \in Reqs, b \in Bodies : Reject(r, b)
    \/ \E r \in Reqs, b \in Bodies : chat(r, b)
    \/ \E r \in Reqs : generate_start(r)
    \/ \E r \in Reqs, item \in StreamItems : AgentYield(r, item)
    \/ \E r \in Reqs : generate_yield(r)
    \/ \E r \in Reqs : generate_return(r)
    \/ \E r \in Reqs : generate_raise(r)

\* The endpoint: requests arriving, being validated and streamed concurrently.
Spec == Init /\ [][Next]_vars

NextTools ==
    \/ \E c \in ToolCalls : tool_print(c)
    \/ \E o \in ProviderOutcomes : tool_lookup(o)

\* The tools, invoked one after another with any arguments and provider answers.
ToolSpec == Init /\ [][NextTools]_vars

\* ------------------------------------------------------------------ claims
Fields == {"content", "id", "role", "threadId", "responseId"}

\* The body has every field of the Request shape, each a string.
MatchesShape(b) == \A f \in Fields : b[f].t = "str"

\* The request has been answered or is being answered.
Answered(r) == phase[r] \in {"Streaming", "Closed"}

\* Some recorded message of the checkpoint store was written by request r.
WroteStore(r) == \E k \in Keys : \E i \in 1..Len(store[k]) : store[k][i].by = r

\* The contents of the first n tokens the agent's stream yielded to request r.
YieldedContents(r, n) == [i \in 1..n |-> yielded[r][i][1].content]

\* C1: a request whose body does not match the Request shape is answered with a
\* 4xx status and is closed, and for it the agent's stream is never called, no
\* token is yielded or written and the checkpoint store holds nothing of it.
C1_RejectedNeverReachesAgent ==
    \A r \in Reqs :
        (Answered(r) /\ ~MatchesShape(body[r])) =>
            /\ phase[r] = "Closed"
            /\ status[r] \in 400..499
            /\ gen[r] = "none"
            /\ calls[r] = <<>>
            /\ upstream[r] = "none"
            /\ yielded[r] = <<>>
            /\ sent[r] = <<>>
            /\ ~WroteStore(r)

\* A body without threadId was rejected while another request streamed a chunk.
C1_Witness ==
    \E r, q \in Reqs :
        /\ phase[r] = "Closed"
        /\ body[r].threadId.t = "missing"
        /\ status[r] = 422
        /\ sent[q] # <<>>
        /\ WroteStore(q)

\* C2: whenever a request's generator exists, its agent stream has been opened
\* or a chunk has been written, the response's status is 200 and its headers
\* are text/event-stream, no-cache no-transform, keep-alive.
C2_StatusAndHeadersBeforeTokens ==
    \A r \in Reqs :
        (gen[r] # "none" \/ upstream[r] # "none" \/ yielded[r] # <<>> \/ sent[r] # <<>>) =>
            /\ status[r] = 200
            /\ headers[r].content_type = "text/event-stream"
            /\ headers[r].cache_control = "no-cache, no-transform"
            /\ headers[r].connection = "keep-alive"

\* A first chunk has been written on a response with status 200.
C2_Witness ==
    \E r \in Reqs : Len(sent[r]) = 1 /\ status[r] = 200 /\ phase[r] = "Streaming"

\* C3: the chunks written are, one per token and in order, the contents of the
\* tokens yielded so far (all of them, or all but the one generate() is about
\* to yield), and their concatenation is the concatenation of those contents.
C3_ChunksAreTokenContents ==
    \A r \in Reqs :
        LET n == IF gen[r] = "have_token" THEN Len(yielded[r]) - 1 ELSE Len(yielded[r])
        IN  /\ sent[r] = YieldedContents(r, n)
            /\ Concat(sent[r]) = Concat(YieldedContents(r, n))

\* Two different chunks, one of them empty, have been written for one request.
C3_Witness ==
    \E r \in Reqs :
        /\ Len(sent[r]) = 2
        /\ sent[r][1] # sent[r][2]
        /\ sent[r][2] = ""
        /\ gen[r] = "running"

\* C4: the context an agent run loads holds only messages recorded by requests
\* naming the same threadId; and for a request whose thread has had no two
\* streams open at once, it is exactly what had been recorded for that threadId
\* when the run opened.
C4_ThreadContinuityAndIsolation ==
    \A r \in Reqs :
        upstream[r] # "none" =>
            /\ \A i \in 1..Len(ctx[r]) :
                   body[ctx[r][i].by].threadId = body[r].threadId
            /\ r \notin overlapped =>
                   ctx[r] = SubSeq(recorded[body[r].threadId.v], 1, seen[r])

\* A request opened on a thread an earlier, completed request had used, and
\* loaded that request's system message, prompt and answer.
C4_Witness ==
    \E r, q \in Reqs :
        /\ r # q
        /\ upstream[r] # "none"
        /\ r \notin overlapped
        /\ upstream[q] = "ended"
        /\ Len(ctx[r]) = 3
        /\ ctx[r][3].by = q
        /\ ctx[r][3].msg.type = "ai"
        /\ ctx[r][3].msg.content # ""

\* C5: a request whose generator has started has called agent.stream exactly
\* once, with the system instruction then a human message carrying
\* prompt.content, and thread_id = threadId; before that it has not called it.
\* Nothing else of the body or of the thread's history enters the call: equal
\* prompt.content gives equal messages, equal threadId equal thread_id.
C5_OneCallWithFixedArguments ==
    /\ \A r \in Reqs :
          IF gen[r] \in {"running", "have_token", "returned", "raised"}
          THEN calls[r] =
                 << [messages |-> << [type |-> "system", content |-> SYSTEM_PROMPT],
                                     [type |-> "human", content |-> body[r].content.v] >>,
                     stream_mode |-> "messages",
                     thread_id |-> body[r].threadId.v] >>
          ELSE calls[r] = <<>>
    /\ \A r, q \in Reqs :
          (calls[r] # <<>> /\ calls[q] # <<>>) =>
              /\ body[r].content = body[q].content => calls[r][1].messages = calls[q][1].messages
              /\ body[r].threadId = body[q].threadId => calls[r][1].thread_id = calls[q][1].thread_id

\* Two requests differing in prompt.id, prompt.role and responseId have both
\* called the agent, each with its own prompt and thread.
C5_Witness ==
    \E r, q \in Reqs :
        /\ Len(calls[r]) = 1 /\ Len(calls[q]) = 1
        /\ body[r].id # body[q].id
        /\ body[r].role # body[q].role
        /\ body[r].responseId # body[q].responseId
        /\ calls[r][1].messages[2].content = "q1"
        /\ calls[q][1].messages[2].content = "q2"
        /\ calls[r][1].thread_id = "t1"
        /\ calls[q][1].thread_id = "t2"

\* The phase changes the state machine Idle, Validating, Streaming, Closed allows.
PhaseMoves ==
    { <<"Idle", "Validating">>, <<"Validating", "Streaming">>,
      <<"Validating", "Closed">>, <<"Streaming", "Closed">> }

\* One step of request r respects the state machine.
PhaseStep(r) ==
    /\ phase'[r] # phase[r] => <<phase[r], phase'[r]>> \in PhaseMoves
    /\ (phase[r] # "Streaming" /\ phase'[r] = "Streaming") =>
           phase[r] = "Validating" /\ MatchesShape(body'[r])
    /\ (phase[r] = "Streaming" /\ phase'[r] # "Streaming") =>
           /\ phase'[r] = "Closed"
           /\ upstream[r] = "open"
           /\ upstream'[r] \in {"ended", "error"}

\* C6: a request's phase only moves along Idle, Validating, Streaming, Closed;
\* Streaming is entered only from Validating with a body of the Request shape;
\* Closed is never left; Streaming is left only for Closed and only in the
\* step in which the open agent stream ends or raises, so a stream that never
\* ends leaves its request in Streaming; and a request whose stream has ended
\* or raised is Closed.
C6_PhaseOrder ==
    /\ [][\A r \in Reqs : PhaseStep(r)]_vars
    /\ [](\A r \in Reqs :
            /\ upstream[r] \in {"ended", "error"} => phase[r] = "Closed"
            /\ upstream[r] = "open" => phase[r] = "Streaming")

\* A request went through Streaming, wrote a chunk and closed on its stream's end.
C6_Witness ==
    \E r \in Reqs :
        /\ phase[r] = "Closed"
        /\ upstream[r] = "ended"
        /\ gen[r] = "returned"
        /\ Len(sent[r]) >= 1

\* C7: once a request's agent stream has raised, after k tokens, the response
\* body is exactly those k chunks and the response is closed; agent.stream was
\* called once for it and no answer of it was recorded.
C7_ErrorEndsBodyAtKChunks ==
    \A r \in Reqs :
        upstream[r] = "error" =>
            /\ Len(sent[r]) = Len(yielded[r])
            /\ \A i \in 1..Len(yielded[r]) : sent[r][i] = yielded[r][i][1].content
            /\ phase[r] = "Closed"
            /\ gen[r] = "raised"
            /\ Len(calls[r]) = 1
            /\ \A k \in Keys : \A i \in 1..Len(store[k]) :
                   store[k][i].by = r => store[k][i].msg.type # "ai"

\* A stream raised after two tokens.
C7_Witness ==
    \E r \in Reqs : upstream[r] = "error" /\ Len(yielded[r]) = 2 /\ Len(sent[r]) = 2

\* C9: a step that changes a request's response body appends to it the content
\* of that request's own next token and changes no other request's body; and
\* every step of a request is enabled whatever the other requests are doing:
\* validation can finish, a created generator can start, a token in hand can be
\* written, an open stream can end or raise.
C9_OwnStreamStep ==
    \A r \in Reqs :
        sent'[r] # sent[r] =>
            /\ Len(yielded[r]) > Len(sent[r])
            /\ sent'[r] = Append(sent[r], yielded[r][Len(sent[r]) + 1][1].content)
            /\ \A q \in Reqs \ {r} : sent'[q] = sent[q]

C9_NoWaiting ==
    \A r \in Reqs :
        /\ phase[r] = "Validating" => ENABLED (\E b \in ValidBodies : chat(r, b))
        /\ gen[r] = "created" => ENABLED generate_start(r)
        /\ gen[r] = "have_token" => ENABLED generate_yield(r)
        /\ gen[r] = "running" => ENABLED generate_return(r) /\ ENABLED generate_raise(r)

C9_IndependentStreams == [][C9_OwnStreamStep]_vars /\ []C9_NoWaiting

\* Two requests on one thread are both Streaming with open agent streams, each
\* has written a chunk, and the thread's checkpoint holds the input of both.
C9_Witness ==
    \E r, q \in Reqs :
        /\ r # q
        /\ body[r].threadId = body[q].threadId
        /\ phase[r] = "Streaming" /\ phase[q] = "Streaming"
        /\ upstream[r] = "open" /\ upstream[q] = "open"
        /\ Len(sent[r]) = 1 /\ Len(sent[q]) = 1
        /\ sent[r] # sent[q]
        /\ \E i, j \in 1..Len(store[body[r].threadId.v]) :
               /\ store[body[r].threadId.v][i].by = r
               /\ store[body[r].threadId.v][j].by = q

\* C10: the agent is called only from the running generator: while a request's
\* generator is merely created nothing has been called or recorded for it, and
\* whenever the agent has been called, its stream opened or the store written
\* for a request, that request's status is 200 -- also after the stream raised.
C10_AgentOpenedAfterResponseStart ==
    \A r \in Reqs :
        /\ gen[r] \in {"none", "created"} =>
               calls[r] = <<>> /\ upstream[r] = "none" /\ ~WroteStore(r)
        /\ (calls[r] # <<>> \/ upstream[r] # "none" \/ WroteStore(r)) => status[r] = 200

\* A stream raised before its first token, on a response with status 200.
C10_Witness ==
    \E r \in Reqs :
        /\ gen[r] = "raised"
        /\ yielded[r] = <<>>
        /\ status[r] = 200
        /\ WroteStore(r)

\* C8: every tool invocation writes its diagnostic line once, before its
\* lookup; every completed invocation has made one query to the provider, for
\* its own endpoint and arguments, whatever was queried before; and when the
\* provider fails, the invocation raises that same error and returns nothing.
C8_ToolsQueryOnceAndPropagate ==
    /\ Len(queries) = Len(done)
    /\ Len(stdout) = Len(done) + (IF tpc = "printed" THEN 1 ELSE 0)
    /\ tpc = "printed" => stdout[Len(stdout)] = tcur.fn \o " tool is being used"
    /\ \A i \in 1..Len(done) :
          /\ stdout[i] = done[i].call.fn \o " tool is being used"
          /\ queries[i].ticker = done[i].call.ticker
          /\ queries[i].start = done[i].call.start_date
          /\ queries[i].end = done[i].call.end_date
          /\ ~done[i].outcome.ok =>
                /\ done[i].result.raised
                /\ done[i].result.err = done[i].outcome.err
                /\ done[i].result.value = <<>>
                /\ done[i].result.kind = ""

\* The same lookup ran twice for an invalid ticker: the first failed with the
\* provider's error, the second queried the provider again.
C8_Witness ==
    /\ Len(done) = 2
    /\ done[1].call = done[2].call
    /\ done[1].call.ticker = "NOPE"
    /\ ~done[1].outcome.ok
    /\ done[1].result.raised
    /\ done[2].outcome.ok
    /\ Len(queries) = 2
    /\ Len(stdout) = 2

=============================================================================
